---- MODULE Spec2Model ----
(***************************************************************************)
(* The ingestion script backend/ingest_data.py as a state machine.         *)
(*                                                                         *)
(* The script is one sequential run: combine title and abstract into text, *)
(* embed the texts in batches, drop and re-create the Milvus collection,   *)
(* insert the embedded records in batches, flush, verify the count, write  *)
(* the titles file.  The database, the embedding model and the file system *)
(* are the environment: their failures are nondeterministic choices.       *)
(*                                                                         *)
(* Python values: a str is a sequence of symbols, each a word without      *)
(* blanks, one space or one line break; None is the value None below,      *)
(* which is no str since "NoneType" is no symbol of any text; a list is a  *)
(* sequence, a dataset row or a dict is a function from its keys.          *)
(***************************************************************************)
EXTENDS Integers, Sequences, FiniteSets, TLC

VARIABLES
    pc,             \* the statement the script is at
    error,          \* the exception that ended the run, "" if none
    columns,        \* column names of small_dataset
    small_dataset,  \* the sampled rows (line 40), with text after line 50
    embPos,         \* rows already handed to generate_embeddings_batch
    embeddings_ds,  \* rows with their embeddings column (line 85)
    lastCall,       \* the latest generate_embeddings_batch call: input and result
    db,             \* the Milvus collection COLLECTION_NAME
    db0,            \* the collection as the run found it
    i,              \* the insert loop's index (line 158)
    insertCalls,    \* the client.insert calls made, in order
    flushCalls,     \* the number of client.flush calls made
    verified,       \* outcome of the verification block (lines 189-196)
    count,          \* the entity count the verification printed, -1 if none
    titles_file,    \* contents of indexed_titles.txt, None if there is no file
    exported        \* outcome of the title export block (lines 199-210)

vars == <<pc, error, columns, small_dataset, embPos, embeddings_ds, lastCall, db, db0,
          i, insertCalls, flushCalls, verified, count, titles_file, exported>>

-----------------------------------------------------------------------------
(* Bounds of the model. *)

\* longest sample whose rows are drawn freely from RowKinds / PreparedKinds
MaxSmall == 2
\* longest sample of generated rows handed to the whole run
MaxRows == 201
\* longest sample of generated rows handed to the embedding step directly
MaxEmbedRows == 66
\* width of the vectors the embedding model returns
DIMENSION == 2

-----------------------------------------------------------------------------
(* Python values. *)

None == <<"NoneType">>

Truthy(v) == v # None /\ v # <<>>

Min(a, b) == IF a < b THEN a ELSE b

DigitChars == <<"0", "1", "2", "3", "4", "5", "6", "7", "8", "9">>

RECURSIVE Digits(_)
Digits(n) == IF n < 10 THEN <<DigitChars[n + 1]>>
             ELSE Digits(n \div 10) \o <<DigitChars[(n % 10) + 1]>>

\* f"{title}": str() of the value
Format(v) == IF v = None THEN <<"None">> ELSE v

-----------------------------------------------------------------------------
(* The embedding model (sentence_transformers): encode is a deterministic  *)
(* function of the text, here a hash of its symbols spread over            *)
(* DIMENSION entries, none of them zero.                                   *)

Alphabet == <<"search_document:", " ", "\n", "Foo", "Bar", "Baz", "T", "A", "Old", "x", "y",
              "0", "1", "2", "3", "4", "5", "6", "7", "8", "9">>

CharCode(c) == CHOOSE k \in 1..Len(Alphabet) : Alphabet[k] = c

RECURSIVE Hash(_, _)
Hash(text, h) == IF text = <<>> THEN h
                 ELSE Hash(Tail(text), (h * 37 + CharCode(Head(text))) % 9973)

\* model.encode(text) for one text
generate_embeddings_func(text) == [k \in 1..DIMENSION |-> 1 + Hash(text, 7) * DIMENSION + k]

\* model.encode(texts) for a list of texts: one vector per text, in order
encode(texts) == [k \in 1..Len(texts) |-> generate_embeddings_func(texts[k])]

ZeroVector == [k \in 1..DIMENSION |-> 0]

-----------------------------------------------------------------------------
(* Step 2: the corpus.  combine_text, lines 42-50. *)

document_prefix == <<"search_document:">>

\* str + None raises TypeError
CombineRaises(row) == row["title"] = None \/ row["abstract"] = None

CombinedText(row) == document_prefix \o <<" ">> \o row["title"] \o <<" ">> \o row["abstract"]

combine_text(row) == [c \in DOMAIN row \cup {"text"} |->
                        IF c = "text" THEN CombinedText(row) ELSE row[c]]

-----------------------------------------------------------------------------
(* Step 3: generate_embeddings_batch, lines 56-80.  A batch is a dict from *)
(* column names to lists.  The result is the exception raised, or the      *)
(* embeddings column the function stores in the batch.                     *)

texts_to_encode(text) == SelectSeq(text, Truthy)

\* lines 70-77: walk the batch, taking the next embedding for a non-empty text
RECURSIVE MapBack(_, _)
MapBack(text, embedding_iter) ==
    IF text = <<>> THEN <<>>
    ELSE IF Truthy(Head(text))
         THEN <<Head(embedding_iter)>> \o MapBack(Tail(text), Tail(embedding_iter))
         ELSE <<ZeroVector>> \o MapBack(Tail(text), embedding_iter)

\* line 58
LacksText(batch) == "text" \notin DOMAIN batch

\* a variant that takes a missing text column for empty texts instead of raising
generate_embeddings_batch_lenient(batch) ==
    IF LacksText(batch)
    THEN [raised |-> "", embeddings |-> [k \in 1..Len(batch["title"]) |-> ZeroVector]]
    ELSE IF texts_to_encode(batch["text"]) = <<>>
         THEN [raised |-> "", embeddings |-> <<>>]
         ELSE [raised |-> "",
               embeddings |-> MapBack(batch["text"], encode(texts_to_encode(batch["text"])))]

generate_embeddings_batch(batch) ==
    IF LacksText(batch)
    THEN [raised |-> "ValueError", embeddings |-> <<>>]
    ELSE IF texts_to_encode(batch["text"]) = <<>>
         THEN [raised |-> "", embeddings |-> <<>>]
         ELSE [raised |-> "",
               embeddings |-> MapBack(batch["text"], encode(texts_to_encode(batch["text"])))]

\* batch_size of the map call, line 85
embed_batch_size == 32

\* datasets' batched map: the batch of rows pos+1 .. pos+embed_batch_size, by column
BatchOf(rows, cols, pos) ==
    [c \in cols |-> [k \in 1..Min(embed_batch_size, Len(rows) - pos) |-> rows[pos + k][c]]]

WithEmbeddings(row, e) == [c \in DOMAIN row \cup {"embeddings"} |->
                             IF c = "embeddings" THEN e ELSE row[c]]

-----------------------------------------------------------------------------
(* Step 4: the collection, lines 109-151. *)

max_text_length == 65530

TitleMaxLength == 1024

Schema == [auto_id |-> TRUE,
           enable_dynamic_field |-> FALSE,
           fields |-> << [field_name |-> "id", datatype |-> "INT64", is_primary |-> TRUE],
                         [field_name |-> "title", datatype |-> "VARCHAR", max_length |-> TitleMaxLength],
                         [field_name |-> "abstract", datatype |-> "VARCHAR", max_length |-> max_text_length],
                         [field_name |-> "text", datatype |-> "VARCHAR", max_length |-> max_text_length],
                         [field_name |-> "dense_vector", datatype |-> "FLOAT_VECTOR", dim |-> DIMENSION] >>]

IndexParams == << [field_name |-> "dense_vector", index_type |-> "AUTOINDEX", metric_type |-> "COSINE"] >>

NoSchema == [auto_id |-> FALSE, enable_dynamic_field |-> FALSE, fields |-> <<>>]

\* no collection of that name
AbsentDb == [exists |-> FALSE, schema |-> NoSchema, index |-> <<>>, rows |-> <<>>, loaded |-> FALSE]

\* client.drop_collection
DropCollection(d) == AbsentDb

\* a variant that never drops
DropIfExists_skip(d) == d

\* lines 113-115
DropIfExists(d) == IF d.exists THEN DropCollection(d) ELSE d

\* client.create_collection: a collection of that name that exists is left as it is
CreateCollection(d) ==
    IF d.exists THEN d
    ELSE [exists |-> TRUE, schema |-> Schema, index |-> IndexParams,
          rows |-> <<>>, loaded |-> FALSE]

\* the server stores a record with the id it assigns
Stored(payload, id) == [c \in DOMAIN payload \cup {"id"} |-> IF c = "id" THEN id ELSE payload[c]]

\* client.insert that succeeds
DbInsert(d, data) ==
    [d EXCEPT !.rows = @ \o [k \in 1..Len(data) |-> Stored(data[k], Len(d.rows) + k)]]

\* a stored record without its id
Payload(stored) == [c \in DOMAIN stored \ {"id"} |-> stored[c]]

-----------------------------------------------------------------------------
(* Step 5: the insert loop, lines 155-181. *)

batch_size == 100

\* a variant whose last batch stops one record short
batch_indices_short(at, n) == (at + 1)..Min(at + batch_size, n - 1)

\* line 160, as positions 1..n of the dataset
batch_indices(at, n) == (at + 1)..Min(at + batch_size, n)

\* lines 164-172
RowPayload(row) == [title |-> row["title"], abstract |-> row["abstract"],
                    text |-> row["text"], dense_vector |-> row["embeddings"]]

batch_data(ds, at) ==
    [k \in 1..Cardinality(batch_indices(at, Len(ds))) |-> RowPayload(ds[at + k])]

\* a variant that goes on with the next batch (continue instead of break)
OnInsertError_continue(at) == [pc |-> "insert", i |-> at + batch_size]

\* lines 178-181: where the loop goes after a failed insert
OnInsertError(at) == [pc |-> "flush", i |-> at]

\* a variant that empties the collection when an insert fails
AfterFailedInsert_rollback(d) == [d EXCEPT !.rows = <<>>]

\* lines 178-181: what the handler does to the collection, which is nothing
AfterFailedInsert(d) == d

\* the loop's next iteration after an insert that succeeded
OnInsertOk(at) == [pc |-> "insert", i |-> at + batch_size]

-----------------------------------------------------------------------------
(* Title export, lines 199-210. *)

\* the writes of lines 206-207 for titles[lo..hi], one after the other
RECURSIVE Written(_, _, _)
Written(titles, lo, hi) ==
    IF lo > hi THEN <<>>
    ELSE IF lo = hi THEN Format(titles[lo]) \o <<"\n">>
    ELSE Written(titles, lo, (lo + hi) \div 2) \o Written(titles, ((lo + hi) \div 2) + 1, hi)

\* the file after open(titles_file, "w") and a write of f"{title}\n" per title
WriteTitles(titles) == Written(titles, 1, Len(titles))

all_titles(ds) == [k \in 1..Len(ds) |-> ds[k]["title"]]

\* a write that fails leaves the lines written so far: none, or all but the last
PartialWrites(n) == {0, IF n > 0 THEN n - 1 ELSE 0}

\* a variant without the try block around the verification
AfterVerify_raise(outcome) == IF outcome = "ok" THEN "export" ELSE "aborted"

\* lines 195-196 and 209-210: both blocks catch Exception and the script goes on
AfterVerify(outcome) == "export"

AfterExport(outcome) == "finished"

-----------------------------------------------------------------------------
(* The inputs of a run: the sampled rows, and what the database and the    *)
(* working directory hold before it.                                       *)

Foo == <<"Foo">>
Bar == <<"Bar">>

RowKinds == { [title |-> Foo, abstract |-> Bar],
              [title |-> <<>>, abstract |-> Bar],
              [title |-> Foo, abstract |-> <<>>],
              [title |-> None, abstract |-> Bar],
              [title |-> Foo, abstract |-> None],
              [title |-> <<"Foo", "\n", "Baz">>, abstract |-> Bar] }

GenRow(k) == [title |-> <<"T">> \o Digits(k), abstract |-> <<"A">>]

GenSample(n) == [k \in 1..n |-> GenRow(k)]

Samples == UNION { [1..n -> RowKinds] : n \in 0..MaxSmall }
           \cup { GenSample(n) : n \in (MaxSmall + 1)..MaxRows }

\* rows as the embedding step may be handed them: any text, None and "" included
PreparedKinds == { [title |-> Foo, abstract |-> Bar, text |-> t] :
                   t \in {None, <<>>, <<"x">>, <<"y">>} }

\* generated rows with some empty texts: every third one, or the whole second batch
GenPrepared(n, pattern) ==
    [k \in 1..n |->
        IF \/ pattern = "sparse" /\ k % 3 = 0
           \/ pattern = "block" /\ k > embed_batch_size /\ k <= 2 * embed_batch_size
        THEN [title |-> GenRow(k)["title"], abstract |-> GenRow(k)["abstract"], text |-> <<>>]
        ELSE combine_text(GenRow(k))]

PreparedSamples == UNION { [1..n -> PreparedKinds] : n \in 0..MaxSmall }
                   \cup { GenPrepared(n, p) : n \in (MaxSmall + 1)..MaxEmbedRows,
                                              p \in {"sparse", "block"} }

WithoutText(rows) == [k \in 1..Len(rows) |-> [c \in {"title", "abstract"} |-> rows[k][c]]]

OldTitles == << <<"Old">>, <<"Old", "2">>, <<"Old", "3">> >>

OldRecord == [title |-> <<"Old">>, abstract |-> <<"A">>, text |-> <<"x">>,
              dense_vector |-> ZeroVector]

\* a collection of that name made by something else
ForeignDb == [exists |-> TRUE,
              schema |-> [auto_id |-> FALSE, enable_dynamic_field |-> TRUE,
                          fields |-> << [field_name |-> "id", datatype |-> "INT64", is_primary |-> TRUE] >>],
              index |-> <<>>,
              rows |-> << [id |-> 7] >>,
              loaded |-> FALSE]

\* the collection an earlier run of this script left
EarlierRunDb == [DbInsert(CreateCollection(AbsentDb), <<OldRecord, OldRecord>>) EXCEPT !.loaded = TRUE]

PriorEnvs == { [db |-> AbsentDb, file |-> None],
               [db |-> CreateCollection(AbsentDb), file |-> <<>>],
               [db |-> EarlierRunDb, file |-> WriteTitles(OldTitles)],
               [db |-> ForeignDb, file |-> WriteTitles(OldTitles)] }

NoCall == [batch |-> [c \in {} |-> <<>>], result |-> [raised |-> "", embeddings |-> <<>>]]

InitRest(env) ==
    /\ error = ""
    /\ embPos = 0
    /\ embeddings_ds = <<>>
    /\ lastCall = NoCall
    /\ db = env.db
    /\ db0 = env.db
    /\ i = 0
    /\ insertCalls = <<>>
    /\ flushCalls = 0
    /\ verified = ""
    /\ count = -1
    /\ titles_file = env.file
    /\ exported = ""

\* the script after line 40: the sample is drawn, nothing else has run
Init ==
    /\ pc = "combine"
    /\ columns = {"title", "abstract"}
    /\ small_dataset \in Samples
    /\ \E env \in PriorEnvs : InitRest(env)

\* the script at line 85, handed any dataset, with or without a text column
InitEmbed ==
    /\ pc = "embed"
    /\ \E s \in PreparedSamples :
          \/ columns = {"title", "abstract", "text"} /\ small_dataset = s
          \/ columns = {"title", "abstract"} /\ small_dataset = WithoutText(s)
    /\ \E env \in PriorEnvs : InitRest(env)

-----------------------------------------------------------------------------
(* The steps of the script. *)

Abort(exception) ==
    /\ pc' = "aborted"
    /\ error' = exception

\* line 50: small_dataset.map(combine_text); map returns an empty dataset as it is
CombineTextStep ==
    /\ pc = "combine"
    /\ IF small_dataset = <<>>
       THEN pc' = "embed" /\ UNCHANGED <<error, columns, small_dataset>>
       ELSE IF \E k \in 1..Len(small_dataset) : CombineRaises(small_dataset[k])
            THEN Abort("TypeError") /\ UNCHANGED <<columns, small_dataset>>
            ELSE /\ small_dataset' = [k \in 1..Len(small_dataset) |-> combine_text(small_dataset[k])]
                 /\ columns' = columns \cup {"text"}
                 /\ pc' = "embed"
                 /\ error' = error
    /\ UNCHANGED <<embPos, embeddings_ds, lastCall, db, db0, i, insertCalls, flushCalls,
                   verified, count, titles_file, exported>>

\* line 85: one call of generate_embeddings_batch by the batched map; the map
\* raises when the returned column is not as long as the batch
EmbedBatch ==
    /\ pc = "embed"
    /\ embPos < Len(small_dataset)
    /\ LET batch == BatchOf(small_dataset, columns, embPos)
           n == Min(embed_batch_size, Len(small_dataset) - embPos)
           res == generate_embeddings_batch(batch)
       IN /\ lastCall' = [batch |-> batch, result |-> res]
          /\ IF res.raised # ""
             THEN Abort(res.raised) /\ UNCHANGED <<embPos, embeddings_ds>>
             ELSE IF Len(res.embeddings) # n
                  THEN Abort("ArrowInvalid") /\ UNCHANGED <<embPos, embeddings_ds>>
                  ELSE /\ embeddings_ds' = embeddings_ds \o
                              [k \in 1..n |-> WithEmbeddings(small_dataset[embPos + k], res.embeddings[k])]
                       /\ embPos' = embPos + n
                       /\ UNCHANGED <<pc, error>>
    /\ UNCHANGED <<columns, small_dataset, db, db0, i, insertCalls, flushCalls,
                   verified, count, titles_file, exported>>

\* the map has gone through every batch
EmbedDone ==
    /\ pc = "embed"
    /\ embPos >= Len(small_dataset)
    /\ pc' = "connect"
    /\ UNCHANGED <<error, columns, small_dataset, embPos, embeddings_ds, lastCall, db, db0, i,
                   insertCalls, flushCalls, verified, count, titles_file, exported>>

\* lines 110-115: connect, drop the collection if it exists
ResetCollection ==
    /\ pc = "connect"
    /\ \E ok \in BOOLEAN :
          IF ok THEN db' = DropIfExists(db) /\ pc' = "create" /\ error' = error
          ELSE Abort("MilvusException") /\ db' = db
    /\ UNCHANGED <<columns, small_dataset, embPos, embeddings_ds, lastCall, db0, i,
                   insertCalls, flushCalls, verified, count, titles_file, exported>>

\* lines 119-149: schema, index, create_collection
CreateStep ==
    /\ pc = "create"
    /\ \E ok \in BOOLEAN :
          IF ok THEN db' = CreateCollection(db) /\ pc' = "insert" /\ error' = error
          ELSE Abort("MilvusException") /\ db' = db
    /\ UNCHANGED <<columns, small_dataset, embPos, embeddings_ds, lastCall, db0, i,
                   insertCalls, flushCalls, verified, count, titles_file, exported>>

\* lines 158-181: one iteration of the insert loop
InsertBatch ==
    /\ pc = "insert"
    /\ i < Len(embeddings_ds)
    /\ \E ok \in BOOLEAN :
          LET data == batch_data(embeddings_ds, i)
              next == IF ok THEN OnInsertOk(i) ELSE OnInsertError(i)
          IN /\ insertCalls' = Append(insertCalls, [data |-> data, ok |-> ok])
             /\ db' = IF ok THEN DbInsert(db, data) ELSE AfterFailedInsert(db)
             /\ pc' = next.pc
             /\ i' = next.i
    /\ UNCHANGED <<error, columns, small_dataset, embPos, embeddings_ds, lastCall, db0,
                   flushCalls, verified, count, titles_file, exported>>

\* line 158: the range is exhausted
InsertDone ==
    /\ pc = "insert"
    /\ i >= Len(embeddings_ds)
    /\ pc' = "flush"
    /\ UNCHANGED <<error, columns, small_dataset, embPos, embeddings_ds, lastCall, db, db0, i,
                   insertCalls, flushCalls, verified, count, titles_file, exported>>

\* line 185
Flush ==
    /\ pc = "flush"
    /\ flushCalls' = flushCalls + 1
    /\ \E ok \in BOOLEAN :
          IF ok THEN pc' = "verify" /\ error' = error
          ELSE Abort("MilvusException")
    /\ UNCHANGED <<columns, small_dataset, embPos, embeddings_ds, lastCall, db, db0, i,
                   insertCalls, verified, count, titles_file, exported>>

\* lines 189-196
Verify ==
    /\ pc = "verify"
    /\ \E outcome \in {"ok", "load_failed", "query_failed"} :
          /\ verified' = outcome
          /\ db' = IF outcome = "load_failed" THEN db ELSE [db EXCEPT !.loaded = TRUE]
          /\ count' = IF outcome = "ok" THEN Len(db.rows) ELSE count
          /\ pc' = AfterVerify(outcome)
    /\ UNCHANGED <<error, columns, small_dataset, embPos, embeddings_ds, lastCall, db0, i,
                   insertCalls, flushCalls, titles_file, exported>>

\* lines 199-210
Export ==
    /\ pc = "export"
    /\ \E outcome \in {"ok", "open_failed", "write_failed"} :
          /\ exported' = outcome
          /\ CASE outcome = "ok" ->
                    titles_file' = WriteTitles(all_titles(embeddings_ds))
               [] outcome = "open_failed" ->
                    titles_file' = titles_file
               [] outcome = "write_failed" ->
                    \E written \in PartialWrites(Len(embeddings_ds)) :
                        titles_file' = WriteTitles(SubSeq(all_titles(embeddings_ds), 1, written))
          /\ pc' = AfterExport(outcome)
    /\ UNCHANGED <<error, columns, small_dataset, embPos, embeddings_ds, lastCall, db, db0, i,
                   insertCalls, flushCalls, verified, count>>

Next ==
    \/ CombineTextStep
    \/ EmbedBatch
    \/ EmbedDone
    \/ ResetCollection
    \/ CreateStep
    \/ InsertBatch
    \/ InsertDone
    \/ Flush
    \/ Verify
    \/ Export

Spec == Init /\ [][Next]_vars

NextEmbed ==
    \/ EmbedBatch
    \/ EmbedDone
    \/ ResetCollection
    \/ CreateStep
    \/ InsertBatch
    \/ InsertDone
    \/ Flush
    \/ Verify
    \/ Export

SpecEmbed == InitEmbed /\ [][NextEmbed]_vars

-----------------------------------------------------------------------------
(* What the claims speak of. *)

N == Len(embeddings_ds)

\* the positions of the insert calls that failed
FailedCalls == {k \in 1..Len(insertCalls) : ~insertCalls[k].ok}

\* the insert loop is over
LoopOver == pc \in {"flush", "verify", "export", "finished"} \/ (pc = "aborted" /\ flushCalls > 0)

\* the payload the Bulk Loader is to send for record k of the embedded corpus
ExpectedPayload(k) == [title |-> embeddings_ds[k]["title"],
                       abstract |-> embeddings_ds[k]["abstract"],
                       text |-> embeddings_ds[k]["text"],
                       dense_vector |-> embeddings_ds[k]["embeddings"]]

\* the records of insert calls lo..hi, one call after the other
RECURSIVE SentBy(_, _)
SentBy(lo, hi) ==
    IF lo > hi THEN <<>>
    ELSE IF lo = hi THEN insertCalls[lo].data
    ELSE SentBy(lo, (lo + hi) \div 2) \o SentBy(((lo + hi) \div 2) + 1, hi)

\* the records the collection holds, without the ids the server gave them
Held == [k \in 1..Len(db.rows) |-> Payload(db.rows[k])]

\* C1: a failed insert is the last insert call of the run (no later batch, no
\* retry: call k carries batch k), the flush is called exactly once after the
\* loop, whether an insert failed or not, and never before the loop is over.
C1_FailedInsertStopsLoopFlushOnce ==
    /\ \A k \in FailedCalls : k = Len(insertCalls)
    /\ \A k \in 1..Len(insertCalls) :
          insertCalls[k].data = [j \in 1..Min(100, N - 100 * (k - 1)) |-> ExpectedPayload(100 * (k - 1) + j)]
    /\ FailedCalls # {} =>
          \/ pc = "flush" /\ flushCalls = 0
          \/ pc \in {"verify", "export", "finished", "aborted"} /\ flushCalls = 1
    /\ pc \in {"verify", "export", "finished"} => flushCalls = 1
    /\ pc \in {"combine", "embed", "connect", "create", "insert", "flush"} => flushCalls = 0
    /\ flushCalls <= 1

\* C1's case: the second of three batches failed, the run went on to its end
C1_Witness ==
    /\ pc = "finished"
    /\ N > 200
    /\ Len(insertCalls) = 2
    /\ insertCalls[1].ok /\ ~insertCalls[2].ok
    /\ flushCalls = 1

\* C3: with no failed insert, the loop makes ceil(N/100) calls; all but the last
\* carry 100 records and the last the remainder, 1 to 100; the calls together
\* carry every record once, in corpus order, each as title, abstract, text and
\* dense_vector, without an id.
C3_BatchesOfHundred ==
    (LoopOver /\ FailedCalls = {}) =>
        /\ Len(insertCalls) = (N + 99) \div 100
        /\ \A k \in 1..(Len(insertCalls) - 1) : Len(insertCalls[k].data) = 100
        /\ Len(insertCalls) > 0 =>
              /\ Len(insertCalls[Len(insertCalls)].data) \in 1..100
              /\ Len(insertCalls[Len(insertCalls)].data) = N - 100 * (Len(insertCalls) - 1)
        /\ SentBy(1, Len(insertCalls)) = [k \in 1..N |-> ExpectedPayload(k)]
        /\ \A k \in 1..Len(insertCalls) : \A j \in 1..Len(insertCalls[k].data) :
              DOMAIN insertCalls[k].data[j] = {"title", "abstract", "text", "dense_vector"}

\* C3's case: three calls, the last one a remainder
C3_Witness ==
    /\ pc = "finished"
    /\ FailedCalls = {}
    /\ Len(insertCalls) = 3
    /\ Len(insertCalls[3].data) < 100

\* C7: the verification, whatever its outcome, is followed by the title export
\* and the export, whatever its outcome, by the end of the script; neither
\* raises, and neither changes the records the collection holds.
C7_AdvisoryFailures ==
    [][ /\ pc = "verify" => (pc' = "export" /\ error' = "" /\ db'.rows = db.rows)
        /\ pc = "export" => (pc' = "finished" /\ error' = "" /\ db' = db) ]_vars

\* C7's case: both the verification and the export failed and the run finished
C7_Witness ==
    /\ pc = "finished"
    /\ verified = "load_failed"
    /\ exported = "write_failed"
    /\ db.rows # <<>>

\* C8: with a dataset that has rows and no text column, the first call of the
\* Embedding Generator raises ValueError (MissingData) and the script ends
\* there: no insert, no provisioning, no flush, no verification, no export.
C8_MissingTextAborts ==
    ("text" \notin columns /\ small_dataset # <<>>) =>
        /\ \/ pc = "embed" /\ lastCall = NoCall
           \/ pc = "aborted" /\ error = "ValueError"
        /\ embPos = 0
        /\ embeddings_ds = <<>>
        /\ insertCalls = <<>>
        /\ db = db0
        /\ flushCalls = 0
        /\ verified = ""
        /\ exported = ""

\* C8's case: the generator was called on a batch without text and raised
C8_Witness ==
    /\ pc = "aborted"
    /\ error = "ValueError"
    /\ LacksText(lastCall.batch)
    /\ Len(small_dataset) > embed_batch_size

\* the collection is there, empty, with the five fields and the cosine index
Provisioned(d) ==
    /\ d.exists
    /\ d.rows = <<>>
    /\ [k \in 1..Len(d.schema.fields) |-> d.schema.fields[k].field_name]
          = <<"id", "title", "abstract", "text", "dense_vector">>
    /\ d.schema.auto_id /\ ~d.schema.enable_dynamic_field
    /\ Len(d.index) = 1
    /\ d.index[1].field_name = "dense_vector" /\ d.index[1].metric_type = "COSINE"

\* the Provisioner has run and the loader has not started
JustProvisioned == pc = "insert" /\ insertCalls = <<>>

\* C9: whatever the database held, the Provisioner leaves the collection
\* existing, empty, with the five-field schema and the cosine index; run on
\* what a Provisioner run left, it leaves the same again.
C9_ProvisionerEndState ==
    JustProvisioned =>
        /\ Provisioned(db)
        /\ (Provisioned(db0) /\ ~db0.loaded) => db = db0

\* C9's case: the collection was there with records of an earlier run
C9_Witness ==
    /\ JustProvisioned
    /\ db0.exists
    /\ db0.rows # <<>>
    /\ db0.schema = db.schema

\* C10: when the run finishes, the collection holds the records of the batches
\* before the first failed insert, in corpus order, and nothing else; all the
\* records of the corpus when no insert failed.
C10_NoRollback ==
    pc = "finished" =>
        LET kept == IF FailedCalls = {} THEN N
                    ELSE 100 * ((CHOOSE k \in FailedCalls : \A m \in FailedCalls : k <= m) - 1)
        IN Held = [k \in 1..kept |-> ExpectedPayload(k)]

\* C10's case: the second batch failed and the first is still in the collection
C10_Witness ==
    /\ pc = "finished"
    /\ Len(insertCalls) = 2
    /\ ~insertCalls[2].ok
    /\ Len(db.rows) = 100

\* C2: a call of the Embedding Generator on a batch with a text column whose
\* entries are strings, any number of them empty, returns as many embeddings
\* as the batch has entries, in order: zeros for an empty text, the model's
\* vector of that text otherwise.
C2_EmbeddingsMatchBatch ==
    ("text" \in DOMAIN lastCall.batch
        /\ \A k \in 1..Len(lastCall.batch["text"]) : lastCall.batch["text"][k] # None) =>
        LET text == lastCall.batch["text"]
            embeddings == lastCall.result.embeddings
        IN /\ lastCall.result.raised = ""
           /\ Len(embeddings) = Len(text)
           /\ \A k \in 1..Len(text) :
                 embeddings[k] = IF text[k] = <<>> THEN [d \in 1..DIMENSION |-> 0]
                                 ELSE generate_embeddings_func(text[k])

\* C4: at the end of a run that wrote the titles file, the file holds the
\* titles of the records inserted into the collection, one line each.
C4_TitlesAreInsertedTitles ==
    (pc = "finished" /\ exported = "ok") =>
        titles_file = WriteTitles([k \in 1..Len(db.rows) |-> db.rows[k]["title"]])

\* the positions of the line breaks of a text
LineBreaks(content) == {p \in 1..Len(content) : content[p] = "\n"}

\* line k of a text: what lies between line break k-1 and line break k
Line(content, k) ==
    LET breaks == LineBreaks(content)
        end == CHOOSE p \in breaks : Cardinality({q \in breaks : q <= p}) = k
        start == IF k = 1 THEN 1
                 ELSE 1 + (CHOOSE p \in breaks : Cardinality({q \in breaks : q <= p}) = k - 1)
    IN SubSeq(content, start, end - 1)

\* C5: the titles file the exporter wrote has one line per record of the
\* corpus, in corpus order, line k being title k, and ends with the line
\* break of the last line; nothing of an earlier file is left.
C5_OneLinePerRecord ==
    (pc = "finished" /\ exported = "ok") =>
        /\ Cardinality(LineBreaks(titles_file)) = N
        /\ titles_file = <<>> \/ titles_file[Len(titles_file)] = "\n"
        /\ \A k \in 1..N : Line(titles_file, k) = embeddings_ds[k]["title"]

\* C6: the Corpus Preparer raises on no row, whatever its title and abstract,
\* and gives every row the text "search_document:" + " " + title + " " +
\* abstract (an absent part counting as empty); the run goes on to the
\* Embedding Generator.
C6_CombineKeepsEveryRow ==
    (pc # "combine" /\ small_dataset # <<>>) =>
        /\ error # "TypeError"
        /\ \A k \in 1..Len(small_dataset) :
              /\ "text" \in DOMAIN small_dataset[k]
              /\ small_dataset[k]["text"] =
                    <<"search_document:", " ">>
                    \o (IF small_dataset[k]["title"] = None THEN <<>> ELSE small_dataset[k]["title"])
                    \o <<" ">>
                    \o (IF small_dataset[k]["abstract"] = None THEN <<>> ELSE small_dataset[k]["abstract"])

====
